---- MODULE Spec2Model ----
(***************************************************************************)
(* Model of the zellij tab-bar plugin (default-plugins/tab-bar): the style *)
(* cascade (Style, SegmentPart, Segment::from_config), the tab segment     *)
(* renderer (Segment::style), the plugin state machine (load / update /    *)
(* render) and the click mapper (tab.rs).                                  *)
(*                                                                         *)
(* Conventions: Option<T> is a sequence, None == <<>> and Some(x) == <<x>>.*)
(* A String is a sequence of one-character strings.  A painted ANSI string *)
(* is modelled by its unstyled text: escape codes have no printable width  *)
(* and ansi_term::unstyled_len only counts the text.  A PaletteColor is a  *)
(* natural number; 0 is PaletteColor::default() (EightBit(0)).             *)
(***************************************************************************)
EXTENDS Integers, Sequences, FiniteSets, TLC

VARIABLES
    loaded,          \* load() has been called by the host
    config,          \* State::config, the "segment" entry of the configuration map
    SEGMENT,         \* the static OnceCell<Segment>: None or Some(Segment)
    mode_info,       \* State::mode_info
    tabs,            \* State::tabs
    active_tab_idx,  \* State::active_tab_idx
    tab_line,        \* State::tab_line, the cached Layout
    should_render,   \* value returned by the last update()
    switch_req,      \* argument of switch_tab_to() in the last handler, None if not called
    diag,            \* message the last handler wrote to stderr, None if none
    fn               \* pure-function harness: [op, a, b, out]

vars == <<loaded, config, SEGMENT, mode_info, tabs, active_tab_idx, tab_line,
          should_render, switch_req, diag, fn>>

prog_vars == <<loaded, config, SEGMENT, mode_info, tabs, active_tab_idx, tab_line,
               should_render, switch_req, diag>>

-----------------------------------------------------------------------------
(* Bounds *)
MaxTabs == 3
MaxCols == 34
MaxColor == 2

-----------------------------------------------------------------------------
(* Option and small helpers *)
None == <<>>
Some(x) == <<x>>
IsSome(o) == o # <<>>
Unwrap(o) == o[1]

\* Option::or
OptOr(a, b) == IF IsSome(a) THEN a ELSE b

\* usize::saturating_sub
saturating_sub(a, b) == IF a >= b THEN a - b ELSE 0

Min(a, b) == IF a <= b THEN a ELSE b
Max(a, b) == IF a >= b THEN a ELSE b

RECURSIVE SumLen(_)
SumLen(parts) == IF parts = <<>> THEN 0 ELSE Head(parts).len + SumLen(Tail(parts))

-----------------------------------------------------------------------------
(* Style *)

\* Style::default()
StyleDefault == [foreground |-> None, background |-> None, inverted |-> None]

\* Style::paint: the unstyled text of the painted string
paint(self, text) ==
    IF self.foreground = None /\ self.background = None THEN <<>> ELSE text

merge_with_swapped(self, other) ==
    [foreground |-> OptOr(other.foreground, self.foreground),
     background |-> OptOr(other.background, self.background),
     inverted   |-> OptOr(other.inverted, self.inverted)]

\* Style::merge_with
merge_with(self, other) ==
    [foreground |-> OptOr(self.foreground, other.foreground),
     background |-> OptOr(self.background, other.background),
     inverted   |-> OptOr(self.inverted, other.inverted)]

\* Style::inverted
inverted(self) ==
    [self EXCEPT !.inverted = IF IsSome(@) THEN Some(~Unwrap(@)) ELSE None]

-----------------------------------------------------------------------------
(* SegmentPart, AllStyles *)

\* SegmentPart::default()
SegmentPartDefault == [text |-> <<>>, active_style |-> None, inactive_style |-> None]

\* impl From<&str> for SegmentPart
SegmentPartFrom(value) == [text |-> value, active_style |-> None, inactive_style |-> None]

\* SegmentPart::to_ansi
to_ansi(self, is_active) ==
    IF is_active /\ IsSome(self.active_style)
    THEN paint(Unwrap(self.active_style), self.text)
    ELSE IF ~is_active /\ IsSome(self.inactive_style)
    THEN paint(Unwrap(self.inactive_style), self.text)
    ELSE self.text

\* SegmentPart::current_theme
current_theme(self, is_active) ==
    LET s == IF is_active THEN self.active_style ELSE self.inactive_style
    IN  IF IsSome(s) THEN Unwrap(s) ELSE StyleDefault

\* SegmentPart::merge_with_style
merge_with_style(self, styles) ==
    [text |-> self.text,
     active_style |-> Some(IF IsSome(self.active_style)
                           THEN merge_with(Unwrap(self.active_style), styles.active)
                           ELSE styles.active),
     inactive_style |-> Some(IF IsSome(self.inactive_style)
                             THEN merge_with(Unwrap(self.inactive_style), styles.inactive)
                             ELSE styles.inactive)]

\* AllStyles::paint
AllStyles_paint(self, msg, is_active) ==
    IF is_active THEN paint(self.active, msg) ELSE paint(self.inactive, msg)

-----------------------------------------------------------------------------
(* SegmentConfig, Segment::from_config *)

\* SegmentConfig::default()
SegmentConfigDefault ==
    [global_style |-> None, start_separator |-> None, tab_name |-> None,
     clients_template |-> None, sync_template |-> None, end_separator |-> None]

ClientsTemplateText == <<" ", "[", "{", "}", "]">>
SyncTemplateText == <<" ", "(", "S", ")">>

\* Segment::from_config
from_config(cfg, default_colors) ==
    LET default_style ==
            [active |-> IF IsSome(cfg.global_style)
                        THEN Unwrap(cfg.global_style).active
                        ELSE [foreground |-> Some(default_colors.black),
                              background |-> Some(default_colors.green),
                              inverted   |-> Some(FALSE)],
             inactive |-> IF IsSome(cfg.global_style)
                          THEN Unwrap(cfg.global_style).inactive
                          ELSE [foreground |-> Some(default_colors.black),
                                background |-> Some(default_colors.fg),
                                inverted   |-> Some(FALSE)]]
        tab_style ==
            merge_with_style(IF IsSome(cfg.tab_name) THEN Unwrap(cfg.tab_name)
                             ELSE SegmentPartDefault, default_style)
    IN  [start_separator |->
            merge_with_style(IF IsSome(cfg.start_separator)
                             THEN Unwrap(cfg.start_separator)
                             ELSE SegmentPartFrom(<<>>), default_style),
         tab_name |-> [active   |-> Unwrap(tab_style.active_style),
                       inactive |-> Unwrap(tab_style.inactive_style)],
         clients_template |->
            merge_with_style(IF IsSome(cfg.clients_template)
                             THEN Unwrap(cfg.clients_template)
                             ELSE SegmentPartFrom(ClientsTemplateText), default_style),
         sync_template |->
            merge_with_style(IF IsSome(cfg.sync_template)
                             THEN Unwrap(cfg.sync_template)
                             ELSE SegmentPartFrom(SyncTemplateText), default_style),
         end_separator |->
            merge_with_style(IF IsSome(cfg.end_separator)
                             THEN Unwrap(cfg.end_separator)
                             ELSE [text |-> <<>>,
                                   active_style   |-> Some(inverted(StyleDefault)),
                                   inactive_style |-> Some(inverted(StyleDefault))],
                             default_style)]

-----------------------------------------------------------------------------
(* Tab Segment Renderer *)

RenamePlaceholder == <<"E", "n", "t", "e", "r", " ", "n", "a", "m", "e", ".", ".", ".">>

\* Client identifiers for which client_id_to_colors returns Some(colors)
MappedClientIds == {1, 2}

\* zellij_tile client_id_to_colors: is a colour pair mapped to this client
client_id_to_colors(client_id, palette) ==
    IF client_id \in MappedClientIds THEN Some(<<palette.green, palette.black>>) ELSE None

\* tab::cursors: (unstyled text of the cursor section, text length)
RECURSIVE cursors(_, _)
cursors(focused_clients, palette) ==
    IF focused_clients = <<>> THEN <<<<>>, 0>>
    ELSE LET rest == cursors(Tail(focused_clients), palette)
         IN  IF IsSome(client_id_to_colors(Head(focused_clients), palette))
             THEN <<<<" ">> \o rest[1], rest[2] + 1>>
             ELSE rest

\* str::split_once("{}"): None, or Some(<<before, after>>) around the first "{}"
split_once(text) ==
    LET hits == {i \in 1..(Len(text) - 1) : text[i] = "{" /\ text[i + 1] = "}"}
    IN  IF hits = {} THEN None
        ELSE LET i == CHOOSE k \in hits : \A m \in hits : k <= m
             IN  Some(<<SubSeq(text, 1, i - 1), SubSeq(text, i + 2, Len(text))>>)

\* the sync segment as Segment::style pushes it
sync_part(self, tab) == to_ansi(self.sync_template, tab.active)

\* Segment::style
style(self, tab, is_renaming, default_palette) ==
    LET clients == tab.other_focused_clients
        clients_theme == current_theme(self.clients_template, tab.active)
        tab_name == IF is_renaming THEN RenamePlaceholder ELSE tab.name
        split == split_once(self.clients_template.text)
        clients_parts ==
            IF clients # <<>> /\ IsSome(split)
            THEN paint(clients_theme, Unwrap(split)[1])
                 \o cursors(clients, default_palette)[1]
                 \o paint(clients_theme, Unwrap(split)[2])
            ELSE <<>>
        tab_text == to_ansi(self.start_separator, tab.active)
                    \o AllStyles_paint(self.tab_name, tab_name, tab.active)
                    \o clients_parts
                    \o sync_part(self, tab)
                    \o to_ansi(self.end_separator, tab.active)
    IN  [part |-> tab_text, len |-> Len(tab_text), tab_index |-> Some(tab.position)]

-----------------------------------------------------------------------------
(* Click Mapper (tab.rs) *)

RECURSIVE clicked_from(_, _, _, _)
clicked_from(line, i, len, mouse_click_col) ==
    IF i > Len(line) THEN None
    ELSE IF mouse_click_col >= len /\ mouse_click_col < len + line[i].len
    THEN Some(line[i])
    ELSE clicked_from(line, i + 1, len + line[i].len, mouse_click_col)

get_clicked_line_part_closed(line, mouse_click_col) ==
    LET RECURSIVE go(_, _)
        go(i, len) ==
            IF i > Len(line) THEN None
            ELSE IF mouse_click_col >= len /\ mouse_click_col <= len + line[i].len
            THEN Some(line[i])
            ELSE go(i + 1, len + line[i].len)
    IN  go(1, 0)

\* tab::get_clicked_line_part
get_clicked_line_part(line, mouse_click_col) == clicked_from(line, 1, 0, mouse_click_col)

get_tab_to_focus_no_offset(line, active, mouse_click_col) ==
    LET clicked == get_clicked_line_part(line, mouse_click_col)
    IN  IF clicked = None THEN None
        ELSE IF Unwrap(clicked).tab_index = None THEN None
        ELSE IF Unwrap(Unwrap(clicked).tab_index) # active
             THEN Some(Unwrap(Unwrap(clicked).tab_index))
             ELSE None

\* tab::get_tab_to_focus
get_tab_to_focus(line, active, mouse_click_col) ==
    LET clicked_line_part == get_clicked_line_part(line, mouse_click_col)
    IN  IF clicked_line_part = None THEN None
        ELSE IF Unwrap(clicked_line_part).tab_index = None THEN None
        ELSE LET clicked_tab_idx == Unwrap(Unwrap(clicked_line_part).tab_index) + 1
             IN  IF clicked_tab_idx # active THEN Some(clicked_tab_idx) ELSE None

-----------------------------------------------------------------------------
(* Line Layout Engine: line::tab_line *)

\* TabLine::default()
TabLinePrefix == <<" ", "Z", "e", "l", "l", "i", "j", " ", "(">>
TabLineSuffix == <<")", " ">>

\* width of one overflow indicator
IndicatorWidth == 6
LeftMoreText == <<" ", "<", "-", " ", "+", " ">>
RightMoreText == <<" ", "+", " ", "-", ">", " ">>
LeftMore == [part |-> LeftMoreText, len |-> IndicatorWidth, tab_index |-> None]
RightMore == [part |-> RightMoreText, len |-> IndicatorWidth, tab_index |-> None]

\* the session-name prefix fragment (untagged), or nothing
tab_line_prefix(session_name, hide_session_name) ==
    IF ~hide_session_name /\ IsSome(session_name)
    THEN LET text == TabLinePrefix \o Unwrap(session_name) \o TabLineSuffix
         IN  <<[part |-> text, len |-> Len(text), tab_index |-> None]>>
    ELSE <<>>

\* indicators needed around the window lo..hi of n tabs
needed_indicators(lo, hi, n) ==
    (IF lo > 1 THEN IndicatorWidth ELSE 0) + (IF hi < n THEN IndicatorWidth ELSE 0)

\* greedy widening of the visible window lo..hi around the active tab
RECURSIVE grow_window(_, _, _, _, _, _)
grow_window(all_tabs, lo, hi, total_left, total_right, budget) ==
    LET n == Len(all_tabs)
        cur == SumLen(SubSeq(all_tabs, lo, hi))
        left_fits == lo > 1
            /\ cur + all_tabs[lo - 1].len + needed_indicators(lo - 1, hi, n) <= budget
        right_fits == hi < n
            /\ cur + all_tabs[hi + 1].len + needed_indicators(lo, hi + 1, n) <= budget
    IN  IF (total_right <= total_left \/ ~left_fits) /\ right_fits
        THEN grow_window(all_tabs, lo, hi + 1, total_left,
                         total_right + all_tabs[hi + 1].len, budget)
        ELSE IF left_fits
        THEN grow_window(all_tabs, lo - 1, hi, total_left + all_tabs[lo - 1].len,
                         total_right, budget)
        ELSE <<lo, hi>>

\* line::tab_line
tab_line_fn(session_name, all_tabs, active_tab_index, max_width, hide_session_name) ==
    LET prefix == tab_line_prefix(session_name, hide_session_name)
        budget == saturating_sub(max_width, SumLen(prefix))
        n == Len(all_tabs)
        a == active_tab_index + 1
    IN  IF SumLen(all_tabs) <= budget THEN prefix \o all_tabs
        ELSE LET w == grow_window(all_tabs, a, a, 0, 0, budget)
             IN  prefix
                 \o (IF w[1] > 1 THEN <<LeftMore>> ELSE <<>>)
                 \o SubSeq(all_tabs, w[1], w[2])
                 \o (IF w[2] < n THEN <<RightMore>> ELSE <<>>)

-----------------------------------------------------------------------------
(* Inputs the host can deliver *)

\* Palette::default(): every colour is PaletteColor::default()
DefaultPalette == [black |-> 0, green |-> 0, fg |-> 0]
UserPalette == [black |-> 1, green |-> 2, fg |-> 1]

\* ModeInfo::default()
ModeInfoDefault ==
    [mode |-> "Normal", session_name |-> None,
     style |-> [colors |-> DefaultPalette, hide_session_name |-> FALSE]]

ModeInfos ==
    {ModeInfoDefault,
     [mode |-> "Normal", session_name |-> Some(<<"s">>),
      style |-> [colors |-> UserPalette, hide_session_name |-> FALSE]],
     [mode |-> "RenameTab", session_name |-> Some(<<"s">>),
      style |-> [colors |-> UserPalette, hide_session_name |-> TRUE]]}

\* a user configuration that sets only part of the cascade
CustomConfig ==
    [global_style |-> Some([active   |-> [foreground |-> Some(1), background |-> None,
                                          inverted |-> None],
                            inactive |-> StyleDefault]),
     start_separator |-> None,
     tab_name |-> None,
     clients_template |-> None,
     sync_template |-> Some([text |-> <<"*">>, active_style |-> None,
                             inactive_style |-> None]),
     end_separator |-> None]

\* the "segment" entry of the configuration map: absent, or a string with the
\* outcome of parsing it (ok = FALSE: serde_json::from_str fails)
Configurations ==
    {None, Some([ok |-> TRUE, value |-> CustomConfig])}

\* config.get("segment").and_then(|conf| serde_json::from_str(conf).ok()).unwrap_or_default()
segment_config(cfg) ==
    IF IsSome(cfg) /\ Unwrap(cfg).ok THEN Unwrap(cfg).value ELSE SegmentConfigDefault

\* TabInfo values; position is the 0-based place of the tab in the snapshot.
\* Tab sp (if any) is synced, has a longer name and two other clients.
TabInfo(i, act, sp) ==
    [position |-> i - 1,
     name |-> IF i = sp THEN <<"a", "b">> ELSE <<"a">>,
     active |-> (i = act),
     is_sync_panes_active |-> (i = sp),
     other_focused_clients |-> IF i = sp THEN <<1, 99>> ELSE <<>>]

\* snapshots of n tabs, at most one of them active (act = 0: none); the last tab
\* may be the special one
TabSnapshots ==
    {[i \in 1..n |-> TabInfo(i, act, IF special THEN n ELSE 0)] :
        n \in 0..MaxTabs, act \in 0..MaxTabs, special \in BOOLEAN}

FnIdle == [op |-> "none", a |-> <<>>, b |-> <<>>, out |-> <<>>]

-----------------------------------------------------------------------------
(* The plugin state machine *)

\* State::default() and the unset static SEGMENT
Init ==
    /\ loaded = FALSE
    /\ config = None
    /\ SEGMENT = None
    /\ mode_info = ModeInfoDefault
    /\ tabs = <<>>
    /\ active_tab_idx = 0
    /\ tab_line = <<>>
    /\ should_render = FALSE
    /\ switch_req = None
    /\ diag = None
    /\ fn = FnIdle

\* ZellijPlugin::load
load(configuration) ==
    /\ ~loaded
    /\ loaded' = TRUE
    /\ config' = configuration
    /\ switch_req' = None
    /\ diag' = None
    /\ UNCHANGED <<SEGMENT, mode_info, tabs, active_tab_idx, tab_line, should_render, fn>>

update_ModeUpdate_no_redraw(m) ==
    /\ loaded
    /\ should_render' = FALSE
    /\ SEGMENT' = IF SEGMENT = None
                  THEN Some(from_config(segment_config(config), mode_info.style.colors))
                  ELSE SEGMENT
    /\ mode_info' = m
    /\ switch_req' = None
    /\ diag' = None
    /\ UNCHANGED <<loaded, config, tabs, active_tab_idx, tab_line, fn>>

\* ZellijPlugin::update, Event::ModeUpdate
update_ModeUpdate(m) ==
    /\ loaded
    /\ should_render' = (mode_info # m)
    /\ SEGMENT' = IF SEGMENT = None
                  THEN Some(from_config(segment_config(config), mode_info.style.colors))
                  ELSE SEGMENT
    /\ mode_info' = m
    /\ switch_req' = None
    /\ diag' = None
    /\ UNCHANGED <<loaded, config, tabs, active_tab_idx, tab_line, fn>>

\* tabs.iter().position(|t| t.active), 0-based, as an Option
position_active(ts) ==
    LET hits == {i \in 1..Len(ts) : ts[i].active}
    IN  IF hits = {} THEN None
        ELSE Some((CHOOSE k \in hits : \A m \in hits : k <= m) - 1)

update_TabUpdate_store_always(ts) ==
    /\ loaded
    /\ LET found == position_active(ts)
           idx == IF IsSome(found) THEN Unwrap(found) + 1 ELSE 0
       IN  /\ should_render' = (active_tab_idx # idx \/ tabs # ts)
           /\ active_tab_idx' = idx
           /\ tabs' = ts
           /\ diag' = IF IsSome(found) THEN None ELSE Some("Could not find active tab.")
    /\ switch_req' = None
    /\ UNCHANGED <<loaded, config, SEGMENT, mode_info, tab_line, fn>>

\* ZellijPlugin::update, Event::TabUpdate
update_TabUpdate(ts) ==
    /\ loaded
    /\ LET found == position_active(ts)
       IN  IF IsSome(found)
           THEN LET idx == Unwrap(found) + 1
                IN  /\ should_render' = (active_tab_idx # idx \/ tabs # ts)
                    /\ active_tab_idx' = idx
                    /\ tabs' = ts
                    /\ diag' = None
           ELSE /\ should_render' = FALSE
                /\ diag' = Some("Could not find active tab.")
                /\ UNCHANGED <<active_tab_idx, tabs>>
    /\ switch_req' = None
    /\ UNCHANGED <<loaded, config, SEGMENT, mode_info, tab_line, fn>>

\* ZellijPlugin::update, Event::Mouse(Mouse::LeftClick(_, col))
update_LeftClick(col) ==
    /\ loaded
    /\ should_render' = FALSE
    /\ diag' = None
    /\ UNCHANGED <<loaded, config, SEGMENT, mode_info, tabs, active_tab_idx, tab_line, fn>>
    /\ switch_req' = get_tab_to_focus(tab_line, active_tab_idx, col)

\* ZellijPlugin::update, Event::Mouse(Mouse::ScrollUp(_))
update_ScrollUp ==
    /\ loaded
    /\ switch_req' = Some(Min(active_tab_idx + 1, Len(tabs)))
    /\ should_render' = FALSE
    /\ diag' = None
    /\ UNCHANGED <<loaded, config, SEGMENT, mode_info, tabs, active_tab_idx, tab_line, fn>>

\* ZellijPlugin::update, Event::Mouse(Mouse::ScrollDown(_))
update_ScrollDown ==
    /\ loaded
    /\ switch_req' = Some(Max(saturating_sub(active_tab_idx, 1), 1))
    /\ should_render' = FALSE
    /\ diag' = None
    /\ UNCHANGED <<loaded, config, SEGMENT, mode_info, tabs, active_tab_idx, tab_line, fn>>

\* ZellijPlugin::update, any other Event::Mouse
update_MouseOther ==
    /\ loaded
    /\ switch_req' = None
    /\ should_render' = FALSE
    /\ diag' = None
    /\ UNCHANGED <<loaded, config, SEGMENT, mode_info, tabs, active_tab_idx, tab_line, fn>>

\* ZellijPlugin::update, any other event
update_Unrecognized ==
    /\ loaded
    /\ switch_req' = None
    /\ should_render' = FALSE
    /\ diag' = Some("Got unrecognized event")
    /\ UNCHANGED <<loaded, config, SEGMENT, mode_info, tabs, active_tab_idx, tab_line, fn>>

\* the position of the last active tab, 0 if none (the loop of render)
RECURSIVE render_active_tab_index(_, _)
render_active_tab_index(ts, acc) ==
    IF ts = <<>> THEN acc
    ELSE render_active_tab_index(Tail(ts), IF Head(ts).active THEN Head(ts).position ELSE acc)

\* the fragments render pushes: one per tab once SEGMENT is set, none before
render_all_tabs(ts, segment, mi) ==
    IF IsSome(segment)
    THEN [i \in 1..Len(ts) |->
            style(Unwrap(segment), ts[i], ts[i].active /\ mi.mode = "RenameTab",
                  mi.style.colors)]
    ELSE <<>>

render_layout_full_width(cols) ==
    tab_line_fn(mode_info.session_name,
                render_all_tabs(tabs, SEGMENT, mode_info),
                render_active_tab_index(tabs, 0),
                cols,
                mode_info.style.hide_session_name)

\* the Layout render computes for a terminal of cols columns
render_layout(cols) ==
    tab_line_fn(mode_info.session_name,
                render_all_tabs(tabs, SEGMENT, mode_info),
                render_active_tab_index(tabs, 0),
                saturating_sub(cols, 1),
                mode_info.style.hide_session_name)

\* ZellijPlugin::render
render(cols) ==
    /\ loaded
    /\ IF tabs = <<>> THEN UNCHANGED tab_line
       ELSE tab_line' = render_layout(cols)
    /\ switch_req' = None
    /\ diag' = None
    /\ UNCHANGED <<loaded, config, SEGMENT, mode_info, tabs, active_tab_idx,
                   should_render, fn>>

Next ==
    \/ \E configuration \in Configurations : load(configuration)
    \/ \E m \in ModeInfos : update_ModeUpdate(m)
    \/ \E ts \in TabSnapshots : update_TabUpdate(ts)
    \/ \E col \in 0..MaxCols : update_LeftClick(col)
    \/ update_ScrollUp
    \/ update_ScrollDown
    \/ update_MouseOther
    \/ update_Unrecognized
    \/ \E cols \in 0..MaxCols : render(cols)

Spec == Init /\ [][Next]_vars

-----------------------------------------------------------------------------
(* Pure-function harness: the style cascade applied to bounded inputs *)

OptColors == {None} \cup {Some(c) : c \in 0..MaxColor}
OptBools == {None, Some(TRUE), Some(FALSE)}
Styles == [foreground : OptColors, background : OptColors, inverted : OptBools]
FnPalettes == [black : 0..MaxColor, green : 0..MaxColor, fg : 0..MaxColor]

\* a user configuration without a global style whose segment overrides set only
\* some of the fields
OverrideConfig ==
    [global_style |-> None,
     start_separator |-> None,
     tab_name |-> Some([text |-> <<>>,
                        active_style |-> Some([foreground |-> Some(2), background |-> None,
                                               inverted |-> None]),
                        inactive_style |-> None]),
     clients_template |-> None,
     sync_template |-> None,
     end_separator |-> Some([text |-> <<"|">>, active_style |-> None,
                             inactive_style |-> Some([foreground |-> None,
                                                      background |-> None,
                                                      inverted |-> Some(TRUE)])])]

FnConfigs == {SegmentConfigDefault, CustomConfig, OverrideConfig}

apply_merge_with ==
    /\ \E a \in Styles, b \in Styles :
          fn' = [op |-> "merge_with", a |-> a, b |-> b, out |-> merge_with(a, b)]
    /\ UNCHANGED prog_vars

apply_from_config ==
    /\ \E c \in FnConfigs, p \in FnPalettes :
          fn' = [op |-> "from_config", a |-> c, b |-> p, out |-> from_config(c, p)]
    /\ UNCHANGED prog_vars

NextFn == apply_merge_with \/ apply_from_config

SpecFn == Init /\ [][NextFn]_vars

-----------------------------------------------------------------------------
(* Helpers of the properties *)

\* column at which fragment j of a layout starts
StartOf(line, j) == SumLen(SubSeq(line, 1, j - 1))

\* column col lies in the half-open range of fragment j
InRange(line, j, col) == StartOf(line, j) <= col /\ col < StartOf(line, j) + line[j].len

IsTagged(part) == IsSome(part.tab_index)

NoElision(line) == \A i \in 1..Len(line) : line[i] # LeftMore /\ line[i] # RightMore

\* number of fragments of a layout tagged with tab index p
CountTag(line, p) == Cardinality({i \in 1..Len(line) : line[i].tab_index = Some(p)})

\* the inputs render hands to the layout engine in the current state
RenderTabs == render_all_tabs(tabs, SEGMENT, mode_info)
RenderActive == render_active_tab_index(tabs, 0) + 1
RenderPrefixLen ==
    SumLen(tab_line_prefix(mode_info.session_name, mode_info.style.hide_session_name))

\* some layout of the current inputs stays within max_width: the prefix, the active
\* tab and the indicators needed around it fit, or everything fits without elision
NonOverflowLayoutExists(max_width) ==
    IF RenderTabs = <<>> THEN RenderPrefixLen <= max_width
    ELSE \/ RenderPrefixLen + SumLen(RenderTabs) <= max_width
         \/ RenderPrefixLen + RenderTabs[RenderActive].len
              + needed_indicators(RenderActive, RenderActive, Len(RenderTabs)) <= max_width

\* the theme a mode/palette event resolves for the current configuration
ResolvedTheme ==
    IF IsSome(SEGMENT) THEN Unwrap(SEGMENT)
    ELSE from_config(segment_config(config), mode_info.style.colors)

\* printable width of the active tab's own fragment
ActiveFragmentWidth ==
    style(ResolvedTheme, tabs[active_tab_idx], mode_info.mode = "RenameTab",
          mode_info.style.colors).len

-----------------------------------------------------------------------------
(* Properties *)

C2_ActiveVisible ==
    \A cols \in 0..MaxCols :
        (tabs # <<>> /\ saturating_sub(cols, 1) >= ActiveFragmentWidth)
        => CountTag(render_layout(cols), tabs[active_tab_idx].position) = 1

\* C3 (click round-trip), as claimed: in a layout without elision a click inside a
\* tab fragment returns that fragment's tab index, or None when it is the active one.
C3_ClickRoundTripOriginal ==
    NoElision(tab_line) =>
        \A col \in 0..MaxCols, j \in 1..Len(tab_line) :
            (IsTagged(tab_line[j]) /\ InRange(tab_line, j, col))
            => get_tab_to_focus(tab_line, active_tab_idx, col)
                 = IF Unwrap(tab_line[j].tab_index) # active_tab_idx
                   THEN Some(Unwrap(tab_line[j].tab_index))
                   ELSE None

\* C3 (click round-trip), amended: fragments are tagged with the 0-based position of
\* their tab; in a layout without elision a click inside a tab fragment returns the
\* tag plus one (the tab's 1-based index), or None when that is active_tab_idx.
C3_ClickRoundTrip ==
    NoElision(tab_line) =>
        \A col \in 0..MaxCols, j \in 1..Len(tab_line) :
            (IsTagged(tab_line[j]) /\ InRange(tab_line, j, col))
            => get_tab_to_focus(tab_line, active_tab_idx, col)
                 = IF Unwrap(tab_line[j].tab_index) + 1 # active_tab_idx
                   THEN Some(Unwrap(tab_line[j].tab_index) + 1)
                   ELSE None

\* C3 witness: a click on the third tab of an unelided layout while the first is active
C3_Witness ==
    /\ NoElision(tab_line)
    /\ Len(tabs) >= 3
    /\ active_tab_idx = 1
    /\ switch_req = Some(3)
    /\ \E j \in 1..Len(tab_line) : tab_line[j].tab_index = Some(2) /\ tab_line[j].len > 0

\* the fragments of a layout hit by a column (at most one)
HitSet(line, col) == {j \in 1..Len(line) : InRange(line, j, col)}

\* C4 (no-switch cases), as claimed: a click returns None when no fragment is hit,
\* when the hit fragment is untagged and when its tab index equals active_tab_idx.
C4_NoSwitchOriginal ==
    \A col \in 0..(MaxCols + 1) :
        LET r == get_tab_to_focus(tab_line, active_tab_idx, col)
        IN  /\ (col >= SumLen(tab_line) => r = None)
            /\ \A j \in HitSet(tab_line, col) :
                  /\ tab_line[j].len > 0
                  /\ (~IsTagged(tab_line[j]) => r = None)
                  /\ (tab_line[j].tab_index = Some(active_tab_idx) => r = None)

\* C4 (no-switch cases), amended: a click returns None when no fragment is hit (the
\* column is at or beyond the total width), when the hit fragment is untagged and
\* when its tab index plus one equals active_tab_idx; the hit fragment is the one
\* whose half-open range contains the column, so it never has zero width.
C4_NoSwitch ==
    \A col \in 0..(MaxCols + 1) :
        LET r == get_tab_to_focus(tab_line, active_tab_idx, col)
        IN  /\ (col >= SumLen(tab_line) => r = None)
            /\ (HitSet(tab_line, col) = {} => r = None)
            /\ \A j \in HitSet(tab_line, col) :
                  /\ tab_line[j].len > 0
                  /\ get_clicked_line_part(tab_line, col) = Some(tab_line[j])
                  /\ (~IsTagged(tab_line[j]) => r = None)
                  /\ (tab_line[j].tab_index = Some(active_tab_idx - 1) => r = None)

\* C4 witness: a layout with a prefix, a zero-width tab fragment and the active tab
C4_Witness ==
    /\ \E j \in 1..Len(tab_line) : ~IsTagged(tab_line[j]) /\ tab_line[j].len > 0
    /\ \E j \in 1..Len(tab_line) : IsTagged(tab_line[j]) /\ tab_line[j].len = 0
    /\ \E j \in 1..Len(tab_line) :
          tab_line[j].tab_index = Some(active_tab_idx - 1) /\ tab_line[j].len > 0
    /\ switch_req = None

\* C5 (scroll clamp), as claimed: every scroll-up or scroll-down event, in every
\* reachable state, requests a tab position in [1, tab_count].
C5_ScrollClamp ==
    [][(update_ScrollUp \/ update_ScrollDown)
       => \E k \in 1..Len(tabs) : switch_req' = Some(k)]_vars

\* C6 (theme rebuild), as claimed: after every mode/palette event the cached theme is
\* the one resolved from the configuration and the palette carried by that event.
C6_ThemeRebuilt ==
    [][\A m \in ModeInfos :
          update_ModeUpdate(m)
          => SEGMENT' = Some(from_config(segment_config(config), m.style.colors))]_vars

\* C7 (inconsistent snapshot): a TabUpdate whose tab list has no active tab leaves the
\* stored tabs, the stored active tab index and the cached Layout unchanged, and
\* update returns false (no redraw).
C7_NoActiveSnapshotIgnored ==
    [][\A ts \in TabSnapshots :
          (position_active(ts) = None /\ update_TabUpdate(ts))
          => (UNCHANGED <<tabs, active_tab_idx, tab_line>> /\ should_render' = FALSE)]_vars

\* C7 witness: a snapshot without an active tab was rejected while tabs and a layout exist
C7_Witness ==
    /\ diag = Some("Could not find active tab.")
    /\ tabs # <<>>
    /\ tab_line # <<>>
    /\ should_render = FALSE

\* C8 (sync indicator width), as claimed: a tab rendered with sync=true is wider than
\* the same tab rendered with sync=false by exactly the width of the sync text.
C8_SyncWidth ==
    IsSome(SEGMENT) =>
        \A i \in 1..Len(tabs) :
            LET seg == Unwrap(SEGMENT)
                w(sync) == style(seg, [tabs[i] EXCEPT !.is_sync_panes_active = sync],
                                 FALSE, mode_info.style.colors).len
            IN  w(TRUE) - w(FALSE) = Len(seg.sync_template.text)

\* the built-in default style pair of a palette
BuiltInActive(p, inv) ==
    [foreground |-> Some(p.black), background |-> Some(p.green), inverted |-> Some(inv)]
BuiltInInactive(p, inv) ==
    [foreground |-> Some(p.black), background |-> Some(p.fg), inverted |-> Some(inv)]

\* C9 (config fallback), as claimed: the empty configuration resolves every segment to
\* the built-in colours of the supplied palette, inverted=false everywhere except the
\* end separator, whose active and inactive styles have inverted=true.
C9_ConfigFallback ==
    (fn.op = "from_config" /\ fn.a = SegmentConfigDefault) =>
        LET seg == fn.out
            p == fn.b
        IN  /\ \A part \in {seg.start_separator, seg.clients_template, seg.sync_template} :
                  /\ part.active_style = Some(BuiltInActive(p, FALSE))
                  /\ part.inactive_style = Some(BuiltInInactive(p, FALSE))
            /\ seg.tab_name.active = BuiltInActive(p, FALSE)
            /\ seg.tab_name.inactive = BuiltInInactive(p, FALSE)
            /\ seg.end_separator.active_style = Some(BuiltInActive(p, TRUE))
            /\ seg.end_separator.inactive_style = Some(BuiltInInactive(p, TRUE))

\* C10 (merge specificity): for each of foreground, background and inverted,
\* a.merge_with(b) has a's value when a's field is present, else b's value when b's is
\* present, else is unset; a.merge_with(a) = a.
C10_MergeSpecificity ==
    fn.op = "merge_with" =>
        /\ \A f \in {"foreground", "background", "inverted"} :
              /\ (IsSome(fn.a[f]) => fn.out[f] = fn.a[f])
              /\ ((fn.a[f] = None /\ IsSome(fn.b[f])) => fn.out[f] = fn.b[f])
              /\ ((fn.a[f] = None /\ fn.b[f] = None) => fn.out[f] = None)
        /\ (fn.a = fn.b => fn.out = fn.a)

\* C10 witness: a merge in which a field of a wins over b's, another falls back to b,
\* and swapping the operands would give a different result
C10_Witness ==
    /\ fn.op = "merge_with"
    /\ IsSome(fn.a.foreground) /\ IsSome(fn.b.foreground)
    /\ fn.a.foreground # fn.b.foreground
    /\ fn.a.background = None /\ IsSome(fn.b.background)
    /\ fn.a.inverted = None /\ fn.b.inverted = None
    /\ fn.out.foreground = fn.a.foreground
    /\ fn.out.background = fn.b.background
    /\ fn.out # merge_with(fn.b, fn.a)

SegmentNames ==
    {"start_separator", "tab_name", "clients_template", "sync_template", "end_separator"}
StyleField(st) == IF st = "active" THEN "active_style" ELSE "inactive_style"

\* the style a configuration's override of segment s sets for state st (no field set
\* when the segment or that style is not configured)
OverrideStyle(cfg, s, st) ==
    IF IsSome(cfg[s]) /\ IsSome(Unwrap(cfg[s])[StyleField(st)])
    THEN Unwrap(Unwrap(cfg[s])[StyleField(st)])
    ELSE StyleDefault

\* the style a configuration's global style block sets for state st
GlobalStyle(cfg, st) ==
    IF IsSome(cfg.global_style) THEN Unwrap(cfg.global_style)[st] ELSE StyleDefault

\* the resolved style of segment s for state st
ResolvedStyle(seg, s, st) ==
    IF s = "tab_name" THEN seg.tab_name[st] ELSE Unwrap(seg[s][StyleField(st)])

\* C11 (cascade completeness), as claimed: in the resolved theme every segment has
\* foreground, background and inverted set in both states; a field the segment
\* override leaves unset has the global style's value, and a field the global style
\* leaves unset too has the built-in default of the palette.
C11_CascadeComplete ==
    fn.op = "from_config" =>
        \A s \in SegmentNames, st \in {"active", "inactive"},
           f \in {"foreground", "background", "inverted"} :
            LET builtin == IF st = "active" THEN BuiltInActive(fn.b, FALSE)
                           ELSE BuiltInInactive(fn.b, FALSE)
                resolved == ResolvedStyle(fn.out, s, st)
            IN  /\ IsSome(resolved[f])
                /\ resolved[f] = OptOr(OverrideStyle(fn.a, s, st)[f],
                                       OptOr(GlobalStyle(fn.a, st)[f], builtin[f]))

\* a pointer event: left click, scroll up or scroll down
PointerEvent ==
    update_ScrollUp \/ update_ScrollDown \/ \E col \in 0..MaxCols : update_LeftClick(col)

\* C12 (redraw signalling): update returns true whenever handling the event changes
\* the stored mode info, the stored tab list or the stored active tab index; every
\* pointer event (left click, scroll up, scroll down) returns false and leaves the
\* stored tabs, active tab index, mode info and cached Layout unchanged.
C12_RedrawSignalling ==
    [][/\ (mode_info' # mode_info \/ tabs' # tabs \/ active_tab_idx' # active_tab_idx)
          => should_render' = TRUE
       /\ \/ (should_render' = FALSE
              /\ UNCHANGED <<tabs, active_tab_idx, mode_info, tab_line>>)
          \/ ~PointerEvent]_vars

\* C12 witness: the last update changed the stored state and asked for a redraw, with
\* a theme, several tabs and a layout in place
C12_Witness ==
    /\ should_render = TRUE
    /\ IsSome(SEGMENT)
    /\ mode_info # ModeInfoDefault
    /\ active_tab_idx >= 2
    /\ tab_line # <<>>

====
